---- MODULE Spec2Model ----
(***************************************************************************)
(* Model of the exchange-rate cooker Lambda (src/app/main.go).             *)
(*                                                                         *)
(* One invocation of handler is a sequence of steps, one per external     *)
(* call (PutItem of the supported-currencies record, GetItem, http.Get,    *)
(* PutItem of the rates record); the local code after a call belongs to    *)
(* the step of that call.  Two execution environments can run handler at   *)
(* the same time against the one table, and each can be invoked again      *)
(* after it returned.  The table is a linearizable key-value store: a      *)
(* GetItem or PutItem either fails without effect or acts atomically.      *)
(***************************************************************************)
EXTENDS Integers, Sequences, FiniteSets, TLC

VARIABLES
    supportedCurrencies,  \* configured list (package variable, set by init)
    apiKey,               \* configured API key, "" when none
    now,                  \* the wall clock, in ticks
    table,                \* exchange-rate items: <<Key, SortKey>> -> item
    supportedRecord,      \* the item ("SupportedCurrencies", "-"): <<>> or <<item>>
    pc,                   \* position of each invocation in handler
    currentDate,          \* handler's currentDate
    idx,                  \* 1-based position in the range loop
    successCount,
    errorCount,
    skippedCount,
    rates,                \* handler's rates (result of fetchExchangeRates)
    result,               \* what handler returned: "nil" or "error"
    trace,                \* history: the external calls of the invocation
    started,              \* history: number of invocations started so far
    overlapped,           \* history: some invocation started while another ran
    call                  \* fetchExchangeRates called on its own: << >> or <<record>>

vars == <<supportedCurrencies, apiKey, now, table, supportedRecord, pc,
          currentDate, idx, successCount, errorCount, skippedCount, rates,
          result, trace, started, overlapped, call>>

config == <<supportedCurrencies, apiKey>>
locals == <<currentDate, idx, successCount, errorCount, skippedCount, rates,
            result>>

---------------------------------------------------------------------------
(* Bounds of the model *)

MaxLen == 2          \* longest configured currency list
MaxClock == 2        \* last tick of the clock
TicksPerDay == 2     \* ticks in one calendar day
MaxInvocations == 2  \* invocations started in one behaviour
MaxCodeLen == 4      \* longest string fetchExchangeRates is called with on its own

(* The execution environments that may run handler at the same time. *)
Invocations == {"a", "b"}

---------------------------------------------------------------------------
(* Currency codes are Go strings: sequences of bytes. *)

EUR == <<69, 85, 82>>
GBP == <<71, 66, 80>>
Lower == <<101, 117, 114>>          \* "eur"

(* Entries SUPPORTED_CURRENCIES may hold after strings.Split(s, "|"). *)
ConfigCodes == {EUR, GBP, Lower}

(* Rate mappings a response body can carry in conversion_rates (rates are *)
(* scaled to integers); NilRates is the map of a body without that field. *)
NilRates == [c \in {} |-> 0]
RatesA == [USD |-> 110, JPY |-> 16000]
RatePool == {RatesA}

---------------------------------------------------------------------------
(* fetchExchangeRates *)

StatusOK == 200
CharA == 65
CharZ == 90
RuneError == 65533

IsCont(b) == b >= 128 /\ b <= 191

(* The runes a Go range loop yields over the bytes of a string: UTF-8     *)
(* decoding of one-, two- and three-byte forms, RuneError for a byte that *)
(* starts no valid form.                                                  *)
RECURSIVE Runes(_)
Runes(s) ==
    IF s = <<>> THEN <<>>
    ELSE IF s[1] < 128 THEN <<s[1]>> \o Runes(Tail(s))
    ELSE IF s[1] >= 194 /\ s[1] <= 223 /\ Len(s) >= 2 /\ IsCont(s[2])
        THEN <<(s[1] - 192) * 64 + (s[2] - 128)>> \o Runes(SubSeq(s, 3, Len(s)))
    ELSE IF s[1] >= 224 /\ s[1] <= 239 /\ Len(s) >= 3 /\ IsCont(s[2]) /\ IsCont(s[3])
        THEN <<(s[1] - 224) * 4096 + (s[2] - 128) * 64 + (s[3] - 128)>>
             \o Runes(SubSeq(s, 4, Len(s)))
    ELSE <<RuneError>> \o Runes(Tail(s))

(* What http.Get and the decoding of the body can come to. *)
Response(transport, status, decodes, res, conv) ==
    [transport |-> transport, status |-> status, decodes |-> decodes,
     result |-> res, conversion_rates |-> conv]

NetworkError == Response("err", 0, FALSE, "", NilRates)
BadStatus == Response("ok", 500, FALSE, "", NilRates)
BadBody == Response("ok", StatusOK, FALSE, "", NilRates)
Bodies == {Response("ok", StatusOK, TRUE, r, m) :
               r \in {"", "success", "error"}, m \in RatePool \cup {NilRates}}
Responses == {NetworkError, BadStatus, BadBody} \cup Bodies

Url(baseCurrency) ==
    IF apiKey # ""
    THEN [host |-> "v6.exchangerate-api.com", key |-> apiKey, base |-> baseCurrency]
    ELSE [host |-> "api.exchangerate-api.com", key |-> "", base |-> baseCurrency]

Failed(why, reqs) ==
    [err |-> why, requests |-> reqs, Result |-> "", ConversionRates |-> NilRates]

(* Mutant of fetchExchangeRates: the decoded result field is not looked at. *)
fetchExchangeRatesNoResultCheck(baseCurrency, resp) ==
    IF Len(baseCurrency) # 3 THEN Failed("baseCurrency must be 3 characters", <<>>)
    ELSE IF \E n \in DOMAIN Runes(baseCurrency) :
                Runes(baseCurrency)[n] < CharA \/ Runes(baseCurrency)[n] > CharZ
        THEN Failed("baseCurrency must be uppercase letters", <<>>)
    ELSE LET reqs == <<Url(baseCurrency)>> IN
        IF resp.transport = "err" THEN Failed("failed to fetch exchange rates", reqs)
        ELSE IF resp.status # StatusOK THEN Failed("API returned status", reqs)
        ELSE IF ~resp.decodes THEN Failed("failed to decode response", reqs)
        ELSE [err |-> "", requests |-> reqs, Result |-> resp.result,
              ConversionRates |-> resp.conversion_rates]

(* Mutant of fetchExchangeRates: only the length is checked. *)
fetchExchangeRatesLengthOnly(baseCurrency, resp) ==
    IF Len(baseCurrency) # 3 THEN Failed("baseCurrency must be 3 characters", <<>>)
    ELSE LET reqs == <<Url(baseCurrency)>> IN
        IF resp.transport = "err" THEN Failed("failed to fetch exchange rates", reqs)
        ELSE IF resp.status # StatusOK THEN Failed("API returned status", reqs)
        ELSE IF ~resp.decodes THEN Failed("failed to decode response", reqs)
        ELSE IF resp.result # "" /\ resp.result # "success"
            THEN Failed("API call failed with result", reqs)
        ELSE [err |-> "", requests |-> reqs, Result |-> resp.result,
              ConversionRates |-> resp.conversion_rates]

(* Mutant of fetchExchangeRates: only the upper bound 'Z' is checked. *)
fetchExchangeRatesNoLowerBound(baseCurrency, resp) ==
    IF Len(baseCurrency) # 3 THEN Failed("baseCurrency must be 3 characters", <<>>)
    ELSE IF \E n \in DOMAIN Runes(baseCurrency) : Runes(baseCurrency)[n] > CharZ
        THEN Failed("baseCurrency must be uppercase letters", <<>>)
    ELSE LET reqs == <<Url(baseCurrency)>> IN
        IF resp.transport = "err" THEN Failed("failed to fetch exchange rates", reqs)
        ELSE IF resp.status # StatusOK THEN Failed("API returned status", reqs)
        ELSE IF ~resp.decodes THEN Failed("failed to decode response", reqs)
        ELSE IF resp.result # "" /\ resp.result # "success"
            THEN Failed("API call failed with result", reqs)
        ELSE [err |-> "", requests |-> reqs, Result |-> resp.result,
              ConversionRates |-> resp.conversion_rates]

(* fetchExchangeRates(baseCurrency) when http.Get answers resp.  requests *)
(* lists the URLs of the HTTP requests the call issued.                   *)
fetchExchangeRates(baseCurrency, resp) ==
    IF Len(baseCurrency) # 3 THEN Failed("baseCurrency must be 3 characters", <<>>)
    ELSE IF \E n \in DOMAIN Runes(baseCurrency) :
                Runes(baseCurrency)[n] < CharA \/ Runes(baseCurrency)[n] > CharZ
        THEN Failed("baseCurrency must be uppercase letters", <<>>)
    ELSE LET reqs == <<Url(baseCurrency)>> IN
        IF resp.transport = "err" THEN Failed("failed to fetch exchange rates", reqs)
        ELSE IF resp.status # StatusOK THEN Failed("API returned status", reqs)
        ELSE IF ~resp.decodes THEN Failed("failed to decode response", reqs)
        ELSE IF resp.result # "" /\ resp.result # "success"
            THEN Failed("API call failed with result", reqs)
        ELSE [err |-> "", requests |-> reqs, Result |-> resp.result,
              ConversionRates |-> resp.conversion_rates]

---------------------------------------------------------------------------
(* The table *)

(* time.Now().Format("2006-01-02"): the calendar day of a tick. *)
FormatDate(t) == t \div TicksPerDay

(* attributevalue.MarshalMap of an ExchangeRateRecord: a nil or empty map *)
(* and a map with entries are different attribute types.                  *)
MarshalRecord(r) ==
    [Key |-> [S |-> r.Key],
     SortKey |-> [S |-> r.SortKey],
     ExchangeRates |->
         IF DOMAIN r.ExchangeRates = {}
         THEN [NULL |-> TRUE]
         ELSE [M |-> [c \in DOMAIN r.ExchangeRates |-> [N |-> r.ExchangeRates[c]]]],
     UpdatedAt |-> [S |-> r.UpdatedAt]]

(* attributevalue.UnmarshalMap into an ExchangeRateRecord. *)
UnmarshalRecord(item) ==
    [Key |-> item.Key.S,
     SortKey |-> item.SortKey.S,
     ExchangeRates |->
         IF "M" \in DOMAIN item.ExchangeRates
         THEN [c \in DOMAIN item.ExchangeRates.M |-> item.ExchangeRates.M[c].N]
         ELSE NilRates,
     UpdatedAt |-> item.UpdatedAt.S]

(* Mutant of PutItem: the item replaces the whole table. *)
PutItemAlone(t, item) ==
    [k \in {<<item.Key.S, item.SortKey.S>>} |-> item]

(* PutItem: the item replaces whatever the table holds under its key. *)
PutItem(t, item) ==
    [k \in DOMAIN t \cup {<<item.Key.S, item.SortKey.S>>} |->
        IF k = <<item.Key.S, item.SortKey.S>> THEN item ELSE t[k]]

(* Mutant of checkExistingExchangeRates: the lookup never finds the item. *)
checkExistingNeverFinds(baseCurrency, date, up) ==
    IF ~up THEN [err |-> "error checking existing rates", record |-> <<>>]
    ELSE [err |-> "", record |-> <<>>]

(* checkExistingExchangeRates(baseCurrency, date); up: GetItem succeeds. *)
(* record is <<>> for the nil record, <<r>> for &r.                      *)
checkExistingExchangeRates(baseCurrency, date, up) ==
    IF ~up THEN [err |-> "error checking existing rates", record |-> <<>>]
    ELSE IF <<baseCurrency, date>> \notin DOMAIN table
        THEN [err |-> "", record |-> <<>>]
    ELSE [err |-> "", record |-> <<UnmarshalRecord(table[<<baseCurrency, date>>])>>]

(* Mutants of NewRecord: the fetched rates are left out; the time of the *)
(* write is left at its zero value.                                     *)
NewRecordNoRates(baseCurrency, date, fetched) ==
    [Key |-> baseCurrency, SortKey |-> date,
     ExchangeRates |-> NilRates, UpdatedAt |-> now]

NewRecordZeroTime(baseCurrency, date, fetched) ==
    [Key |-> baseCurrency, SortKey |-> date,
     ExchangeRates |-> fetched.ConversionRates, UpdatedAt |-> 0]

(* The record storeExchangeRates(baseCurrency, date, rates) builds. *)
NewRecord(baseCurrency, date, fetched) ==
    [Key |-> baseCurrency, SortKey |-> date,
     ExchangeRates |-> fetched.ConversionRates, UpdatedAt |-> now]

(* Mutant of storeExchangeRates: a conditional write, refused when the key *)
(* is present.                                                            *)
storeExchangeRatesIfAbsent(baseCurrency, date, fetched, up) ==
    IF ~up \/ <<baseCurrency, date>> \in DOMAIN table
    THEN [err |-> "error storing rates", table |-> table]
    ELSE [err |-> "",
          table |-> PutItem(table, MarshalRecord(NewRecord(baseCurrency, date, fetched)))]

(* Mutant of storeExchangeRates: the record is keyed by the day of the   *)
(* write, not by the date it is handed.                                  *)
storeExchangeRatesToday(baseCurrency, date, fetched, up) ==
    IF ~up THEN [err |-> "error storing rates", table |-> table]
    ELSE [err |-> "",
          table |-> PutItem(table,
                        MarshalRecord(NewRecord(baseCurrency, FormatDate(now), fetched)))]

(* storeExchangeRates; up: PutItem succeeds.  Gives the error and the table. *)
storeExchangeRates(baseCurrency, date, fetched, up) ==
    IF ~up THEN [err |-> "error storing rates", table |-> table]
    ELSE [err |-> "",
          table |-> PutItem(table, MarshalRecord(NewRecord(baseCurrency, date, fetched)))]

(* Mutant of storeSupportedCurrencies: a record already there is kept. *)
storeSupportedCurrenciesIfAbsent(up) ==
    IF ~up THEN [err |-> "error storing supported currencies", item |-> supportedRecord]
    ELSE IF supportedRecord # <<>> THEN [err |-> "", item |-> supportedRecord]
    ELSE [err |-> "",
          item |-> <<[Key |-> "SupportedCurrencies", SortKey |-> "-",
                      SupportedCurrencies |-> supportedCurrencies,
                      UpdatedAt |-> now]>>]

(* storeSupportedCurrencies; up: PutItem succeeds. *)
storeSupportedCurrencies(up) ==
    IF ~up THEN [err |-> "error storing supported currencies", item |-> supportedRecord]
    ELSE [err |-> "",
          item |-> <<[Key |-> "SupportedCurrencies", SortKey |-> "-",
                      SupportedCurrencies |-> supportedCurrencies,
                      UpdatedAt |-> now]>>]

---------------------------------------------------------------------------
(* handler *)

NoFetch == Failed("not fetched", <<>>)

Seqs(S, n) == UNION {[1..m -> S] : m \in 1..n}

Init ==
    /\ supportedCurrencies \in Seqs(ConfigCodes, MaxLen)
    /\ apiKey = "k"
    /\ now = 1
    /\ table = <<>>
    /\ supportedRecord = <<>>
    /\ pc = [p \in Invocations |-> "idle"]
    /\ currentDate = [p \in Invocations |-> 0]
    /\ idx = [p \in Invocations |-> 0]
    /\ successCount = [p \in Invocations |-> 0]
    /\ errorCount = [p \in Invocations |-> 0]
    /\ skippedCount = [p \in Invocations |-> 0]
    /\ rates = [p \in Invocations |-> NoFetch]
    /\ result = [p \in Invocations |-> "none"]
    /\ trace = [p \in Invocations |-> <<>>]
    /\ started = 0
    /\ overlapped = FALSE
    /\ call = <<>>

Running(p) == pc[p] \notin {"idle", "done"}

(* A call in the history: its place in the loop, the date label it used,  *)
(* how it came out, the HTTP requests it issued and, for a put that       *)
(* succeeded, the rate mapping it was given (NilRates for the others).    *)
Entry(p, op, out, net, conv) ==
    [op |-> op, i |-> idx[p], date |-> currentDate[p], out |-> out, net |-> net,
     rates |-> conv]

Log(p, op, out, net, conv) ==
    trace' = [trace EXCEPT ![p] = Append(@, Entry(p, op, out, net, conv))]

(* Mutant of Continue: the entry after the current one is passed over. *)
ContinueSkipsOne(p) ==
    /\ idx' = [idx EXCEPT ![p] = @ + 2]
    /\ pc' = [pc EXCEPT ![p] =
                 IF idx[p] + 1 < Len(supportedCurrencies) THEN "check" ELSE "return"]
    /\ rates' = [rates EXCEPT ![p] = NoFetch]

(* continue, or the end of the loop body: on to the next entry or out of *)
(* the loop.                                                            *)
Continue(p) ==
    /\ idx' = [idx EXCEPT ![p] = @ + 1]
    /\ pc' = [pc EXCEPT ![p] =
                 IF idx[p] < Len(supportedCurrencies) THEN "check" ELSE "return"]
    /\ rates' = [rates EXCEPT ![p] = NoFetch]

(* Mutants of OnError: the error is not counted; the error ends the loop. *)
OnErrorUncounted(p) ==
    /\ UNCHANGED errorCount
    /\ Continue(p)

OnErrorAbort(p) ==
    /\ errorCount' = [errorCount EXCEPT ![p] = @ + 1]
    /\ pc' = [pc EXCEPT ![p] = "return"]
    /\ rates' = [rates EXCEPT ![p] = NoFetch]
    /\ UNCHANGED idx

(* Mutant of OnError: a failed get or fetch is counted but the loop body *)
(* goes on to the put.                                                   *)
OnErrorFallsThrough(p) ==
    /\ errorCount' = [errorCount EXCEPT ![p] = @ + 1]
    /\ IF pc[p] = "store"
       THEN Continue(p)
       ELSE /\ pc' = [pc EXCEPT ![p] = "store"]
            /\ UNCHANGED <<idx, rates>>

(* errorCount++ and continue: the three error branches of the loop. *)
OnError(p) ==
    /\ errorCount' = [errorCount EXCEPT ![p] = @ + 1]
    /\ Continue(p)

(* Mutant of OnCheck: an absent record is skipped like a present one. *)
OnCheckMissSkips(r) ==
    IF r.err # "" THEN "error" ELSE "skip"

(* Mutant of OnCheck: an existing record does not end the iteration. *)
OnCheckNoSkip(r) ==
    IF r.err # "" THEN "error" ELSE "fetch"

(* The branch handler takes on what checkExistingExchangeRates returned. *)
OnCheck(r) ==
    IF r.err # "" THEN "error"
    ELSE IF r.record # <<>> THEN "skip"
    ELSE "fetch"

(* What the table answered, for the history. *)
Answer(r) ==
    IF r.err # "" THEN "err"
    ELSE IF r.record # <<>> THEN "hit"
    ELSE "miss"

(* The trigger invokes handler: currentDate is taken from the clock. *)
Invoke(p) ==
    /\ ~Running(p)
    /\ started < MaxInvocations
    /\ started' = started + 1
    /\ overlapped' = (overlapped \/ \E q \in Invocations \ {p} : Running(q))
    /\ currentDate' = [currentDate EXCEPT ![p] = FormatDate(now)]
    /\ pc' = [pc EXCEPT ![p] = "supported"]
    /\ idx' = [idx EXCEPT ![p] = 0]
    /\ successCount' = [successCount EXCEPT ![p] = 0]
    /\ errorCount' = [errorCount EXCEPT ![p] = 0]
    /\ skippedCount' = [skippedCount EXCEPT ![p] = 0]
    /\ rates' = [rates EXCEPT ![p] = NoFetch]
    /\ result' = [result EXCEPT ![p] = "none"]
    /\ trace' = [trace EXCEPT ![p] = <<>>]
    /\ UNCHANGED <<config, now, table, supportedRecord, call>>

(* Mutant of AfterSupported: the failed write counts as an error. *)
AfterSupportedCounted(p, err) ==
    /\ successCount' = [successCount EXCEPT ![p] = 0]
    /\ errorCount' = [errorCount EXCEPT ![p] = IF err # "" THEN 1 ELSE 0]
    /\ skippedCount' = [skippedCount EXCEPT ![p] = 0]
    /\ idx' = [idx EXCEPT ![p] = 1]
    /\ pc' = [pc EXCEPT ![p] =
                 IF Len(supportedCurrencies) >= 1 THEN "check" ELSE "return"]
    /\ UNCHANGED result

(* What follows storeSupportedCurrencies: its error is logged and nothing *)
(* else; the counters are declared and the loop is entered.               *)
AfterSupported(p, err) ==
    /\ successCount' = [successCount EXCEPT ![p] = 0]
    /\ errorCount' = [errorCount EXCEPT ![p] = 0]
    /\ skippedCount' = [skippedCount EXCEPT ![p] = 0]
    /\ idx' = [idx EXCEPT ![p] = 1]
    /\ pc' = [pc EXCEPT ![p] =
                 IF Len(supportedCurrencies) >= 1 THEN "check" ELSE "return"]
    /\ UNCHANGED result

(* storeSupportedCurrencies. *)
StoreSupported(p) ==
    /\ pc[p] = "supported"
    /\ \E up \in BOOLEAN :
        LET r == storeSupportedCurrencies(up) IN
        /\ supportedRecord' = r.item
        /\ Log(p, "putSupported", IF r.err = "" THEN "ok" ELSE "err", 0, NilRates)
        /\ AfterSupported(p, r.err)
    /\ UNCHANGED <<config, now, table, currentDate, rates, started,
                   overlapped, call>>

(* checkExistingExchangeRates and the two branches on its result. *)
Check(p) ==
    /\ pc[p] = "check"
    /\ \E up \in BOOLEAN :
        LET r == checkExistingExchangeRates(supportedCurrencies[idx[p]],
                                            currentDate[p], up) IN
        /\ Log(p, "get", Answer(r), 0, NilRates)
        /\ CASE OnCheck(r) = "error" ->
                  /\ OnError(p)
                  /\ UNCHANGED skippedCount
             [] OnCheck(r) = "skip" ->
                  /\ skippedCount' = [skippedCount EXCEPT ![p] = @ + 1]
                  /\ Continue(p)
                  /\ UNCHANGED errorCount
             [] OTHER ->
                  /\ pc' = [pc EXCEPT ![p] = "fetch"]
                  /\ UNCHANGED <<idx, rates, errorCount, skippedCount>>
    /\ UNCHANGED <<config, now, table, supportedRecord, currentDate,
                   successCount, result, started, overlapped, call>>

(* fetchExchangeRates and the branch on its error. *)
Fetch(p) ==
    /\ pc[p] = "fetch"
    /\ \E resp \in Responses :
        LET r == fetchExchangeRates(supportedCurrencies[idx[p]], resp) IN
        IF r.err # ""
        THEN /\ OnError(p)
             /\ Log(p, "fetch", "err", Len(r.requests), NilRates)
        ELSE /\ rates' = [rates EXCEPT ![p] = r]
             /\ pc' = [pc EXCEPT ![p] = "store"]
             /\ Log(p, "fetch", "ok", Len(r.requests), NilRates)
             /\ UNCHANGED <<idx, errorCount>>
    /\ UNCHANGED <<config, now, table, supportedRecord, currentDate,
                   successCount, skippedCount, result, started, overlapped, call>>

(* storeExchangeRates and the branch on its error. *)
Store(p) ==
    /\ pc[p] = "store"
    /\ \E up \in BOOLEAN :
        LET r == storeExchangeRates(supportedCurrencies[idx[p]], currentDate[p],
                                    rates[p], up) IN
        /\ table' = r.table
        /\ IF r.err # ""
           THEN /\ OnError(p)
                /\ Log(p, "put", "err", 0, NilRates)
                /\ UNCHANGED successCount
           ELSE /\ successCount' = [successCount EXCEPT ![p] = @ + 1]
                /\ Continue(p)
                /\ Log(p, "put", "ok", 0, rates[p].ConversionRates)
                /\ UNCHANGED errorCount
    /\ UNCHANGED <<config, now, supportedRecord, currentDate, skippedCount,
                   result, started, overlapped, call>>

(* Mutant of AllFailed: any error fails the invocation. *)
AllFailedAnyError(p) == errorCount[p] > 0

(* The classification after the loop. *)
AllFailed(p) == errorCount[p] > 0 /\ successCount[p] = 0 /\ skippedCount[p] = 0

Return(p) ==
    /\ pc[p] = "return"
    /\ result' = [result EXCEPT ![p] = IF AllFailed(p) THEN "error" ELSE "nil"]
    /\ pc' = [pc EXCEPT ![p] = "done"]
    /\ UNCHANGED <<config, now, table, supportedRecord, currentDate, idx,
                   successCount, errorCount, skippedCount, rates, trace,
                   started, overlapped, call>>

(* Time passes. *)
Tick ==
    /\ now < MaxClock
    /\ now' = now + 1
    /\ UNCHANGED <<config, table, supportedRecord, pc, locals, trace, started,
                   overlapped, call>>

(* One step of the invocation running in environment p. *)
Step(p) ==
    \/ Invoke(p)
    \/ StoreSupported(p)
    \/ Check(p)
    \/ Fetch(p)
    \/ Store(p)
    \/ Return(p)

(* Normal operation: the schedule invokes handler once at a time, each    *)
(* invocation after the one before it has returned.                       *)
Next ==
    \/ Tick
    \/ Step("a")

Spec == Init /\ [][Next]_vars

(* Overlapping invocations: both environments run handler against the    *)
(* same table, a list of one entry keeping the interleavings in reach.    *)
InitRace ==
    /\ Init
    /\ Len(supportedCurrencies) = 1

NextRace ==
    \/ Tick
    \/ \E p \in Invocations : Step(p)

SpecRace == InitRace /\ [][NextRace]_vars

(* One invocation on its own, from the empty table: the first call of    *)
(* handler and no other.                                                  *)
NextOnce ==
    \/ Tick
    \/ /\ Step("a")
       /\ started' = 1

SpecOnce == Init /\ [][NextOnce]_vars

(* The schedule goes on: handler is invoked again whenever the invocation *)
(* before it has returned, without end and so without a count.            *)
Retrigger(p) ==
    /\ ~Running(p)
    /\ UNCHANGED started
    /\ overlapped' = (overlapped \/ \E q \in Invocations \ {p} : Running(q))
    /\ currentDate' = [currentDate EXCEPT ![p] = FormatDate(now)]
    /\ pc' = [pc EXCEPT ![p] = "supported"]
    /\ idx' = [idx EXCEPT ![p] = 0]
    /\ successCount' = [successCount EXCEPT ![p] = 0]
    /\ errorCount' = [errorCount EXCEPT ![p] = 0]
    /\ skippedCount' = [skippedCount EXCEPT ![p] = 0]
    /\ rates' = [rates EXCEPT ![p] = NoFetch]
    /\ result' = [result EXCEPT ![p] = "none"]
    /\ trace' = [trace EXCEPT ![p] = <<>>]
    /\ UNCHANGED <<config, now, table, supportedRecord, call>>

StepRetry(p) ==
    \/ Retrigger(p)
    \/ StoreSupported(p)
    \/ Check(p)
    \/ Fetch(p)
    \/ Store(p)
    \/ Return(p)

NextRetry ==
    \/ Tick
    \/ StepRetry("a")

(* The calls for list entry j that come back without an error. *)
GetAnswersAt(j) ==
    /\ idx["a"] = j
    /\ Check("a")
    /\ trace'["a"][Len(trace'["a"])].out # "err"

FetchOkAt(j) ==
    /\ idx["a"] = j
    /\ Fetch("a")
    /\ trace'["a"][Len(trace'["a"])].out = "ok"

PutOkAt(j) ==
    /\ idx["a"] = j
    /\ Store("a")
    /\ trace'["a"][Len(trace'["a"])].out = "ok"

(* Repeated invocations over a list of two entries. *)
InitRetry ==
    /\ Init
    /\ Len(supportedCurrencies) = 2

(* Repeated invocations, one at a time, that keep taking steps; for every *)
(* list entry a get, a fetch and a put that could succeed again and again *)
(* does succeed at some time.                                             *)
SpecRetry ==
    /\ InitRetry
    /\ [][NextRetry]_vars
    /\ WF_vars(StepRetry("a"))
    /\ \A j \in 1 .. 2 :
        /\ SF_vars(GetAnswersAt(j))
        /\ SF_vars(FetchOkAt(j))
        /\ SF_vars(PutOkAt(j))

(* fetchExchangeRates on its own: any short string over bytes on both   *)
(* sides of 'A' and 'Z', lower case and non-ASCII, with or without a key, *)
(* and any answer of the provider.                                       *)
ProbeBytes == {64, 65, 90, 91, 97, 195, 137}
ProbeCodes == UNION {[1..m -> ProbeBytes] : m \in 0..MaxCodeLen}

InitFetch ==
    /\ supportedCurrencies = <<EUR>>
    /\ apiKey \in {"", "k"}
    /\ now = 1
    /\ table = <<>>
    /\ supportedRecord = <<>>
    /\ pc = [p \in Invocations |-> "idle"]
    /\ currentDate = [p \in Invocations |-> 0]
    /\ idx = [p \in Invocations |-> 0]
    /\ successCount = [p \in Invocations |-> 0]
    /\ errorCount = [p \in Invocations |-> 0]
    /\ skippedCount = [p \in Invocations |-> 0]
    /\ rates = [p \in Invocations |-> NoFetch]
    /\ result = [p \in Invocations |-> "none"]
    /\ trace = [p \in Invocations |-> <<>>]
    /\ started = 0
    /\ overlapped = FALSE
    /\ call = <<>>

CallFetch ==
    /\ call = <<>>
    /\ \E baseCurrency \in ProbeCodes, resp \in Responses :
        call' = <<[baseCurrency |-> baseCurrency, resp |-> resp,
                   ret |-> fetchExchangeRates(baseCurrency, resp)]>>
    /\ UNCHANGED <<config, now, table, supportedRecord, pc, locals, trace,
                   started, overlapped>>

NextFetch == CallFetch

SpecFetch == InitFetch /\ [][NextFetch]_vars

---------------------------------------------------------------------------
(* Reading the history *)

N == Len(supportedCurrencies)

LoopOps == {"get", "fetch", "put"}

(* The currency of the call at position n of trace[p], and the key the   *)
(* invocation is working on.                                             *)
CodeAt(p, n) == supportedCurrencies[trace[p][n].i]
KeyOf(p) == <<supportedCurrencies[idx[p]], currentDate[p]>>

(* The positions of trace[p] holding a call of ops that came out as outs. *)
Calls(p, ops, outs) ==
    {n \in DOMAIN trace[p] : trace[p][n].op \in ops /\ trace[p][n].out \in outs}

Count(p, ops, outs) == Cardinality(Calls(p, ops, outs))

AnyOut == {"ok", "err", "hit", "miss"}

(* The step appends a call of op that came out as out to trace[p]. *)
Called(p, op, out) ==
    /\ Len(trace'[p]) = Len(trace[p]) + 1
    /\ trace'[p][Len(trace'[p])].op = op
    /\ trace'[p][Len(trace'[p])].out = out

---------------------------------------------------------------------------
(* No fetch or put carries the index of a get that found a record. *)
C1_NoCallAfterHit ==
    \A p \in Invocations : \A m \in Calls(p, {"get"}, {"hit"}) :
        \A n \in DOMAIN trace[p] :
            trace[p][n].i = trace[p][m].i => trace[p][n].op = "get"

(* The step of a get that found a record. *)
C1_HitStep ==
    \A p \in Invocations :
        Called(p, "get", "hit") =>
            /\ skippedCount'[p] = skippedCount[p] + 1
            /\ successCount'[p] = successCount[p]
            /\ errorCount'[p] = errorCount[p]
            /\ idx'[p] = idx[p] + 1
            /\ pc'[p] \in {"check", "return"}
            /\ table' = table

(* C1: when get(c, today) returns an existing record, that iteration      *)
(* calls neither fetch nor put: the step counts one skip, leaves          *)
(* successCount, errorCount and the table alone and moves to the next     *)
(* entry, so no fetch or put carries the index of a hit.                  *)
C1_IdempotencyGuard == [] C1_NoCallAfterHit /\ [][C1_HitStep]_vars

(* The scenario of one configured currency already recorded for today. *)
C1_Witness ==
    \E p \in Invocations :
        /\ pc[p] = "done"
        /\ N = 1
        /\ Count(p, {"get"}, {"hit"}) = 1
        /\ Count(p, {"fetch", "put"}, AnyOut) = 0
        /\ skippedCount[p] = 1
        /\ result[p] = "nil"

(* C2: handler returns an error exactly when, after the loop has run over *)
(* every configured currency, errorCount > 0, successCount = 0 and        *)
(* skippedCount = 0; in every other final state it returns nil.           *)
C2_OutcomeClassification ==
    \A p \in Invocations :
        pc[p] = "done" =>
            /\ idx[p] = N + 1
            /\ result[p] \in {"nil", "error"}
            /\ result[p] = "error" <=>
                   (errorCount[p] > 0 /\ successCount[p] = 0 /\ skippedCount[p] = 0)

(* Some currencies errored and handler still returned nil. *)
C2_Witness ==
    \E p \in Invocations :
        /\ pc[p] = "done"
        /\ errorCount[p] > 0
        /\ successCount[p] + skippedCount[p] > 0
        /\ result[p] = "nil"

(* C3: with k of the N configured currencies failing at get, fetch or put *)
(* and the other N - k stored or skipped, handler returns nil when k < N  *)
(* and an error when k = N.                                               *)
C3_PartialFailure ==
    \A p \in Invocations :
        pc[p] = "done" =>
            LET k == Count(p, LoopOps, {"err"}) IN
            /\ Count(p, {"put"}, {"ok"}) + Count(p, {"get"}, {"hit"}) = N - k
            /\ k < N => result[p] = "nil"
            /\ k = N => result[p] = "error"

(* Every one of two configured currencies failed. *)
C3_Witness ==
    \E p \in Invocations :
        /\ pc[p] = "done"
        /\ N = 2
        /\ Count(p, LoopOps, {"err"}) = 2
        /\ result[p] = "error"

(* C4: an error of get, fetch or put never ends the loop: each adds one   *)
(* to errorCount, get is attempted once for every entry before the entry  *)
(* the loop stands at, and for every entry of the list once the loop is   *)
(* over.                                                                  *)
C4_ErrorIsolation ==
    \A p \in Invocations :
        /\ errorCount[p] = Count(p, LoopOps, {"err"})
        /\ pc[p] \in {"check", "fetch", "store", "return", "done"} =>
               \A i \in 1..N :
                   (i < idx[p] \/ (i = idx[p] /\ pc[p] \in {"fetch", "store"})) <=>
                       Cardinality({n \in Calls(p, {"get"}, AnyOut) :
                                       trace[p][n].i = i}) = 1
        /\ pc[p] \in {"return", "done"} => idx[p] = N + 1

(* The first of two entries failed at get and the second was looked up. *)
C4_Witness ==
    \E p \in Invocations :
        /\ pc[p] = "done"
        /\ N = 2
        /\ \E m \in Calls(p, {"get"}, {"err"}) : trace[p][m].i = 1
        /\ \E n \in Calls(p, {"get"}, AnyOut) : trace[p][n].i = 2
        /\ errorCount[p] >= 1

(* C5: nothing in handler guards the put it issues after a miss and a   *)
(* fetch: whatever the table holds under the key by then, a record of    *)
(* another invocation included, the put can succeed, and the table then  *)
(* holds this invocation's rates under the key (last write wins).        *)
C5_PutReplaces ==
    \A p \in Invocations :
        pc[p] = "store" =>
            ENABLED (/\ Store(p)
                     /\ Called(p, "put", "ok")
                     /\ KeyOf(p) \in DOMAIN table'
                     /\ UnmarshalRecord(table'[KeyOf(p)]).ExchangeRates
                            = rates[p].ConversionRates)

(* Two overlapping invocations both missed the same key and both wrote it. *)
C5_Witness ==
    /\ overlapped
    /\ \E p, q \in Invocations :
        /\ p # q
        /\ currentDate[p] = currentDate[q]
        /\ \E m \in Calls(p, {"put"}, {"ok"}), n \in Calls(q, {"put"}, {"ok"}) :
            /\ CodeAt(p, m) = CodeAt(q, n)
            /\ \E g \in Calls(p, {"get"}, {"miss"}) : trace[p][g].i = trace[p][m].i
            /\ \E h \in Calls(q, {"get"}, {"miss"}) : trace[q][h].i = trace[q][n].i

(* Every item lies under its own key, and no step changes or removes an  *)
(* item the table holds.                                                 *)
OwnKeys ==
    \A k \in DOMAIN table : <<table[k].Key.S, table[k].SortKey.S>> = k

ItemsKept ==
    \A k \in DOMAIN table : k \in DOMAIN table' /\ table'[k] = table[k]

(* C6 as claimed: once written, a record is never changed, whatever the  *)
(* invocations do.                                                       *)
C6_NeverOverwritten == [][ItemsKept]_vars

(* C6 amended: every item lies under its own (Key, SortKey), and while no *)
(* invocation has started during another, no step changes or removes an   *)
(* item the table holds.                                                  *)
C6_ImmutableUnlessOverlapped ==
    [] OwnKeys /\ [][~overlapped' => ItemsKept]_vars

(* A second invocation, after the first returned, found the record. *)
C6_Witness ==
    /\ ~overlapped
    /\ started >= 2
    /\ \E p \in Invocations :
        /\ pc[p] = "done"
        /\ Count(p, {"get"}, {"hit"}) = 1
        /\ <<supportedCurrencies[1], currentDate[p]>> \in DOMAIN table

(* C7: with one invocation at a time, fetch and put are called only for a *)
(* key the table does not hold, so once a put for (c, today) succeeded no *)
(* later invocation fetches or puts c for that day; an invocation that    *)
(* finds a record for every configured currency calls neither, counts N   *)
(* skips and returns nil.                                                 *)
C7_CrossInvocationIdempotence ==
    \A p \in Invocations :
        /\ pc[p] \in {"fetch", "store"} => KeyOf(p) \notin DOMAIN table
        /\ (pc[p] = "done" /\ Count(p, {"get"}, {"hit"}) = N) =>
               /\ Count(p, {"fetch", "put"}, AnyOut) = 0
               /\ skippedCount[p] = N
               /\ result[p] = "nil"

(* A later invocation found both of two different currencies recorded. *)
C7_Witness ==
    \E p \in Invocations :
        /\ started >= 2
        /\ pc[p] = "done"
        /\ N = 2
        /\ supportedCurrencies[1] # supportedCurrencies[2]
        /\ Count(p, {"get"}, {"hit"}) = 2
        /\ skippedCount[p] = 2
        /\ result[p] = "nil"

(* C8 as claimed: one invocation never calls put twice for the same key. *)
C8_PutCalledOncePerKey ==
    \A p \in Invocations : \A m, n \in Calls(p, {"put"}, AnyOut) :
        (m # n /\ trace[p][m].date = trace[p][n].date) => CodeAt(p, m) # CodeAt(p, n)

(* C8 amended: in one invocation no put is called for a key after a put  *)
(* for that key succeeded: of two puts for one key the earlier failed.   *)
C8_NoPutAfterSuccessfulPut ==
    \A p \in Invocations : \A m, n \in Calls(p, {"put"}, AnyOut) :
        (m < n /\ trace[p][m].date = trace[p][n].date /\ CodeAt(p, m) = CodeAt(p, n))
            => trace[p][m].out = "err"

(* A code configured twice: its first put failed and it was put again. *)
C8_Witness ==
    \E p \in Invocations : \E m, n \in Calls(p, {"put"}, AnyOut) :
        /\ m < n
        /\ CodeAt(p, m) = CodeAt(p, n)
        /\ trace[p][m].out = "err"
        /\ trace[p][n].out = "ok"

(* C9: when storeSupportedCurrencies fails, the failure is not counted in *)
(* errorCount, the loop still looks up every configured currency, and     *)
(* handler returns what the per-currency outcomes alone decide: an error  *)
(* exactly when all N of them failed.                                     *)
C9_SupportedWriteBestEffort ==
    \A p \in Invocations :
        Calls(p, {"putSupported"}, {"err"}) # {} =>
            /\ errorCount[p] = Count(p, LoopOps, {"err"})
            /\ pc[p] # "supported"
            /\ Len(trace[p]) = 1 => pc[p] = "check"
            /\ pc[p] \in {"return", "done"} =>
                   \A i \in 1..N : \E n \in Calls(p, {"get"}, AnyOut) : trace[p][n].i = i
            /\ pc[p] = "done" =>
                   (result[p] = "error" <=> Count(p, LoopOps, {"err"}) = N)

(* The write of the supported currencies failed, a currency was stored   *)
(* and handler returned nil.                                             *)
C9_Witness ==
    \E p \in Invocations :
        /\ pc[p] = "done"
        /\ Calls(p, {"putSupported"}, {"err"}) # {}
        /\ successCount[p] >= 1
        /\ errorCount[p] = 0
        /\ result[p] = "nil"

(* A string of exactly three bytes 'A'..'Z'. *)
ThreeUpperCase(s) == Len(s) = 3 /\ \A n \in 1..3 : s[n] \in 65..90

(* C10: fetchExchangeRates returns an error without issuing a request for *)
(* every baseCurrency that is not three upper-case letters, and issues    *)
(* exactly one request for every baseCurrency that is.                    *)
C10_ValidationBeforeRequest ==
    \A n \in DOMAIN call :
        IF ThreeUpperCase(call[n].baseCurrency)
        THEN /\ Len(call[n].ret.requests) = 1
             /\ call[n].ret.requests[1].base = call[n].baseCurrency
        ELSE /\ call[n].ret.err # ""
             /\ call[n].ret.requests = <<>>

(* Three bytes that are two characters, and an answer that would decode. *)
C10_Witness ==
    \E n \in DOMAIN call :
        /\ call[n].baseCurrency = <<195, 137, 65>>
        /\ call[n].resp.transport = "ok" /\ call[n].resp.decodes
        /\ call[n].ret.err # ""
        /\ call[n].ret.requests = <<>>


(* ---------------------------------------------------------------------- *)
(* C11                                                                    *)
(* ---------------------------------------------------------------------- *)

(* The history entries of invocation p that belong to a configured entry  *)
(* which is not a three-letter upper-case code.                           *)
MalformedCalls(p) ==
    {n \in Calls(p, LoopOps, AnyOut) : ~ThreeUpperCase(CodeAt(p, n))}

(* C11 as stated: a malformed configured code is rejected before any I/O, *)
(* so the handler performs no store call (get or put) and no network call *)
(* for that entry: the only call in its history is the fetch that raises  *)
(* the validation error, and that fetch issues no request.                *)
C11_RejectedBeforeAnyIO ==
    \A p \in Invocations : \A n \in MalformedCalls(p) :
        /\ trace[p][n].op = "fetch"
        /\ trace[p][n].net = 0

(* C11, amended: for a malformed configured code the handler makes no     *)
(* network call and no put, and no record is ever stored under it; the    *)
(* one store call is the lookup, which precedes the validation inside     *)
(* fetchExchangeRates and finds nothing; a fetch that is reached fails    *)
(* without issuing a request.                                             *)
C11_MalformedNoRequestNoPut ==
    /\ \A k \in DOMAIN table : ThreeUpperCase(k[1])
    /\ \A p \in Invocations : \A n \in MalformedCalls(p) :
        /\ trace[p][n].op \in {"get", "fetch"}
        /\ trace[p][n].net = 0
        /\ trace[p][n].op = "get" => trace[p][n].out \in {"miss", "err"}
        /\ trace[p][n].op = "fetch" =>
                /\ trace[p][n].out = "err"
                /\ n > 1
                /\ trace[p][n - 1].op = "get"
                /\ trace[p][n - 1].out = "miss"
                /\ trace[p][n - 1].i = trace[p][n].i

(* A finished invocation looked a malformed code up, found nothing, and   *)
(* had it rejected by the validation without a request.                   *)
C11_Witness ==
    \E p \in Invocations :
        /\ pc[p] = "done"
        /\ errorCount[p] >= 1
        /\ \E n \in MalformedCalls(p) :
            /\ n > 1
            /\ trace[p][n].op = "fetch"
            /\ trace[p][n].out = "err"
            /\ trace[p][n].net = 0
            /\ trace[p][n - 1].op = "get"
            /\ trace[p][n - 1].out = "miss"

(* ---------------------------------------------------------------------- *)
(* C12                                                                    *)
(* ---------------------------------------------------------------------- *)

(* C12: with no API key configured, fetchExchangeRates succeeds for a     *)
(* valid code whenever the HTTP status is 200 and the body decodes,       *)
(* whatever the body's fields contain; the embedded-status check applies  *)
(* only when the authenticated endpoint was called.                       *)
C12_PublicEndpointTrusted ==
    \A n \in DOMAIN call :
        ( /\ apiKey = ""
          /\ ThreeUpperCase(call[n].baseCurrency)
          /\ call[n].resp.transport = "ok"
          /\ call[n].resp.status = StatusOK
          /\ call[n].resp.decodes )
        => /\ call[n].ret.err = ""
           /\ call[n].ret.ConversionRates = call[n].resp.conversion_rates

(* ---------------------------------------------------------------------- *)
(* C13                                                                    *)
(* ---------------------------------------------------------------------- *)

(* The finished invocation p ran the scenario: two configured entries,    *)
(* nothing stored for either, the first fetched and stored, the fetch of  *)
(* the second failed after its request was issued.                        *)
C13_Scenario(p) ==
    /\ pc[p] = "done"
    /\ N = 2
    /\ Len(trace[p]) = 6
    /\ trace[p][2].op = "get" /\ trace[p][2].out = "miss" /\ trace[p][2].i = 1
    /\ trace[p][3].op = "fetch" /\ trace[p][3].out = "ok" /\ trace[p][3].i = 1
    /\ trace[p][4].op = "put" /\ trace[p][4].out = "ok" /\ trace[p][4].i = 1
    /\ trace[p][5].op = "get" /\ trace[p][5].out = "miss" /\ trace[p][5].i = 2
    /\ trace[p][6].op = "fetch" /\ trace[p][6].out = "err" /\ trace[p][6].i = 2
    /\ trace[p][6].net = 1

(* C13: with configured [c1, c2], nothing stored, fetch(c1) returning R   *)
(* and fetch(c2) failing on the network, the invocation ends with a       *)
(* record for (c1, today) holding R, no record for (c2, today),           *)
(* successCount 1, errorCount 1, skippedCount 0 and a nil result.         *)
C13_OneStoredOneFailed ==
    \A p \in Invocations :
        C13_Scenario(p) =>
            /\ <<supportedCurrencies[1], currentDate[p]>> \in DOMAIN table
            /\ UnmarshalRecord(table[<<supportedCurrencies[1], currentDate[p]>>])
                   .ExchangeRates = trace[p][4].rates
            /\ <<supportedCurrencies[2], currentDate[p]>> \notin DOMAIN table
            /\ successCount[p] = 1
            /\ errorCount[p] = 1
            /\ skippedCount[p] = 0
            /\ result[p] = "nil"

(* The scenario was run with a non-empty mapping R. *)
C13_Witness ==
    \E p \in Invocations :
        /\ C13_Scenario(p)
        /\ trace[p][4].rates = RatesA
        /\ supportedCurrencies = <<EUR, GBP>>

(* ---------------------------------------------------------------------- *)
(* C14                                                                    *)
(* ---------------------------------------------------------------------- *)

(* What a get of the key of history entry n of p returns in this state,   *)
(* the table being reachable.                                             *)
GetBack(p, n) ==
    checkExistingExchangeRates(CodeAt(p, n), trace[p][n].date, TRUE)

(* C14: once put(c, d, R) has succeeded, a get(c, d) with no write in     *)
(* between returns a record whose rates equal R and whose UpdatedAt is    *)
(* not the zero time; every currency counted in successCount is one whose *)
(* put succeeded, and its stored record holds exactly the mapping that    *)
(* was fetched for it.                                                    *)
C14_RoundTrip ==
    \A p \in Invocations :
        /\ successCount[p] = Count(p, {"put"}, {"ok"})
        /\ \A n \in Calls(p, {"put"}, {"ok"}) :
            /\ GetBack(p, n).err = ""
            /\ GetBack(p, n).record # <<>>
            /\ GetBack(p, n).record[1].Key = CodeAt(p, n)
            /\ GetBack(p, n).record[1].SortKey = trace[p][n].date
            /\ GetBack(p, n).record[1].UpdatedAt # 0
            /\ n = Len(trace[p]) =>
                   GetBack(p, n).record[1].ExchangeRates = trace[p][n].rates

(* A put of a non-empty mapping has just succeeded and been counted. *)
C14_Witness ==
    \E p \in Invocations :
        /\ trace[p] # <<>>
        /\ trace[p][Len(trace[p])].op = "put"
        /\ trace[p][Len(trace[p])].out = "ok"
        /\ trace[p][Len(trace[p])].rates = RatesA
        /\ successCount[p] = 1
        /\ GetBack(p, Len(trace[p])).record[1].ExchangeRates = RatesA

(* ---------------------------------------------------------------------- *)
(* C15                                                                    *)
(* ---------------------------------------------------------------------- *)

(* Past its first step an invocation has attempted the write of the       *)
(* supported-currencies record, once, ahead of every other call.          *)
C15_WrittenFirstOnce ==
    \A p \in Invocations :
        /\ pc[p] \in {"idle", "supported"} => trace[p] = <<>>
        /\ pc[p] \notin {"idle", "supported"} =>
            /\ trace[p] # <<>>
            /\ trace[p][1].op = "putSupported"
            /\ Count(p, {"putSupported"}, AnyOut) = 1

(* A write of the supported-currencies record that succeeds leaves the    *)
(* singleton holding the configured list, in order, stamped with the time *)
(* of this write; one that fails leaves the singleton as it was.          *)
C15_WriteStep ==
    \A p \in Invocations :
        /\ Called(p, "putSupported", "ok") =>
               supportedRecord' =
                   <<[Key |-> "SupportedCurrencies", SortKey |-> "-",
                      SupportedCurrencies |-> supportedCurrencies,
                      UpdatedAt |-> now]>>
        /\ Called(p, "putSupported", "err") => supportedRecord' = supportedRecord

(* C15: every invocation attempts the write of the supported-currencies   *)
(* record (Key "SupportedCurrencies", SortKey "-") exactly once, before   *)
(* any per-currency get, fetch or put, and when the write succeeds the    *)
(* stored list equals the configured list in order, replacing whatever    *)
(* the singleton held before.                                             *)
C15_SingletonOverwrite == [] C15_WrittenFirstOnce /\ [][C15_WriteStep]_vars

(* A second invocation has replaced the singleton with a two-entry list   *)
(* at a later time and gone on to its per-currency calls.                 *)
C15_Witness ==
    \E p \in Invocations :
        /\ started = 2
        /\ N = 2
        /\ Len(trace[p]) >= 2
        /\ trace[p][1].op = "putSupported"
        /\ trace[p][1].out = "ok"
        /\ trace[p][2].op = "get"
        /\ supportedRecord # <<>>
        /\ supportedRecord[1].SupportedCurrencies = supportedCurrencies
        /\ supportedRecord[1].UpdatedAt = 2

(* ---------------------------------------------------------------------- *)
(* C16                                                                    *)
(* ---------------------------------------------------------------------- *)

(* C16: every exchange-rate record the function stores carries the TTL    *)
(* expiry attribute ExpiresAt, so that stored rates expire automatically. *)
C16_RecordsCarryExpiresAt ==
    \A k \in DOMAIN table : "ExpiresAt" \in DOMAIN table[k]

(* ---------------------------------------------------------------------- *)
(* C17                                                                    *)
(* ---------------------------------------------------------------------- *)

(* Entry n of the history of p is a call of op that came out as out. *)
Is(p, n, op, out) ==
    /\ n \in DOMAIN trace[p]
    /\ trace[p][n].op = op
    /\ trace[p][n].out = out

(* Entry n is followed by a call of op for the same list entry, or is the *)
(* last one while p stands right before that call.                        *)
ThenCalls(p, n, op, at) ==
    IF n < Len(trace[p])
    THEN trace[p][n + 1].op = op /\ trace[p][n + 1].i = trace[p][n].i
    ELSE pc[p] = at /\ idx[p] = trace[p][n].i

(* Entry n ended its iteration: what follows, if anything, is the get of  *)
(* the next list entry.                                                   *)
ThenNext(p, n) ==
    IF n < Len(trace[p])
    THEN trace[p][n + 1].op = "get" /\ trace[p][n + 1].i = trace[p][n].i + 1
    ELSE pc[p] \in {"check", "return", "done"} /\ idx[p] = trace[p][n].i + 1

(* C17: within one iteration fetch(c) is called if and only if get(c,     *)
(* today) returned absent without error, an absent record being counted   *)
(* neither as an error nor as a skip; put(c, today, R) is called if and   *)
(* only if fetch(c) returned successfully with R; no put is made without  *)
(* a preceding miss and a successful fetch in the same iteration.         *)
C17_CallPreconditions ==
    \A p \in Invocations :
        /\ skippedCount[p] = Count(p, {"get"}, {"hit"})
        /\ errorCount[p] = Count(p, LoopOps, {"err"})
        /\ pc[p] = "store" => rates[p].err = ""
        /\ \A n \in DOMAIN trace[p] :
            /\ trace[p][n].op = "fetch" =>
                   Is(p, n - 1, "get", "miss") /\ trace[p][n - 1].i = trace[p][n].i
            /\ trace[p][n].op = "put" =>
                /\ Is(p, n - 1, "fetch", "ok") /\ trace[p][n - 1].i = trace[p][n].i
                /\ Is(p, n - 2, "get", "miss") /\ trace[p][n - 2].i = trace[p][n].i
            /\ Is(p, n, "get", "miss") => ThenCalls(p, n, "fetch", "fetch")
            /\ Is(p, n, "get", "hit") \/ Is(p, n, "get", "err") => ThenNext(p, n)
            /\ Is(p, n, "fetch", "ok") => ThenCalls(p, n, "put", "store")
            /\ Is(p, n, "fetch", "err") => ThenNext(p, n)

(* One finished invocation with an iteration that missed, fetched and     *)
(* put, and an iteration whose get found a record or failed and so called *)
(* neither fetch nor put.                                                 *)
C17_Witness ==
    \E p \in Invocations :
        /\ pc[p] = "done"
        /\ \E n \in DOMAIN trace[p] :
            /\ Is(p, n, "get", "miss")
            /\ Is(p, n + 1, "fetch", "ok")
            /\ Is(p, n + 2, "put", "ok")
        /\ \E n \in DOMAIN trace[p] :
            /\ Is(p, n, "get", "hit") \/ Is(p, n, "get", "err")
            /\ Count(p, {"fetch", "put"}, AnyOut) = 2

(* ---------------------------------------------------------------------- *)
(* C18                                                                    *)
(* ---------------------------------------------------------------------- *)

(* The place of a call within its iteration. *)
Rank(op) == CASE op = "get" -> 1 [] op = "fetch" -> 2 [] op = "put" -> 3

(* The positions of the list whose iteration p has behind it. *)
Finished(p) ==
    IF pc[p] \in {"check", "fetch", "store"} THEN 1 .. (idx[p] - 1)
    ELSE IF pc[p] \in {"return", "done"} THEN 1 .. N
    ELSE {}

(* C18: within one invocation the configured currencies are processed in  *)
(* list order, one at a time: a call is issued only when the one before   *)
(* it has returned, the calls of position i all come before any call of   *)
(* position i + 1, no position is passed over or taken up again, and the  *)
(* invocation stands at one place of one iteration.                       *)
C18_StrictlySequential ==
    \A p \in Invocations :
        /\ pc[p] \in {"check", "fetch", "store"} => idx[p] \in 1 .. N
        /\ \A j \in Finished(p) : \E n \in Calls(p, {"get"}, AnyOut) : trace[p][n].i = j
        /\ \A n \in Calls(p, LoopOps, AnyOut) :
            /\ trace[p][n].i \in 1 .. N
            /\ trace[p][n].i \in Finished(p)
                 \/ (pc[p] \in {"fetch", "store"} /\ trace[p][n].i = idx[p])
            /\ n > 1
            /\ IF trace[p][n].op = "get"
               THEN trace[p][n].i = trace[p][n - 1].i + 1
               ELSE /\ trace[p][n].i = trace[p][n - 1].i
                    /\ Rank(trace[p][n].op) = Rank(trace[p][n - 1].op) + 1

(* A finished invocation went through two different currencies, all the   *)
(* calls of the first ahead of the calls of the second.                   *)
C18_Witness ==
    \E p \in Invocations :
        /\ pc[p] = "done"
        /\ supportedCurrencies = <<GBP, EUR>>
        /\ Len(trace[p]) = 7
        /\ \A n \in 2 .. 4 : trace[p][n].i = 1
        /\ \A n \in 5 .. 7 : trace[p][n].i = 2

(* ---------------------------------------------------------------------- *)
(* C19                                                                    *)
(* ---------------------------------------------------------------------- *)

(* successCount + errorCount + skippedCount of p. *)
Total(p) == successCount[p] + errorCount[p] + skippedCount[p]

(* The three counters are naturals whose sum is the number of list        *)
(* entries p has behind it: 0 at the first, N after the loop.             *)
C19_SumIsProgress ==
    \A p \in Invocations :
        /\ successCount[p] \in Nat /\ errorCount[p] \in Nat /\ skippedCount[p] \in Nat
        /\ pc[p] \notin {"idle", "supported"} => Total(p) = Cardinality(Finished(p))
        /\ pc[p] \in {"return", "done"} => Total(p) = N

(* A step of a running invocation lowers no counter; the step that ends   *)
(* an iteration raises exactly one of them, by one; any other step leaves *)
(* all three as they are.                                                 *)
C19_CounterStep ==
    \A p \in Invocations :
        pc[p] \in {"check", "fetch", "store", "return"} =>
            LET ds == successCount'[p] - successCount[p]
                de == errorCount'[p] - errorCount[p]
                dk == skippedCount'[p] - skippedCount[p]
            IN  /\ <<ds, de, dk>> \in
                       {<<0, 0, 0>>, <<1, 0, 0>>, <<0, 1, 0>>, <<0, 0, 1>>}
                /\ idx'[p] = idx[p] + 1 <=> <<ds, de, dk>> # <<0, 0, 0>>

(* C19: the three counters start at 0 and never decrease during an        *)
(* invocation; each loop iteration increments exactly one of them by      *)
(* exactly 1; after i currencies their sum is i, and it is N at the end.  *)
C19_CounterAccounting == [] C19_SumIsProgress /\ [][C19_CounterStep]_vars

(* A finished invocation over two entries ended one iteration with an     *)
(* error and the other with a success.                                    *)
C19_Witness ==
    \E p \in Invocations :
        /\ pc[p] = "done"
        /\ N = 2
        /\ successCount[p] = 1
        /\ errorCount[p] = 1
        /\ skippedCount[p] = 0

(* ---------------------------------------------------------------------- *)
(* C20                                                                    *)
(* ---------------------------------------------------------------------- *)

(* No put carries the index of a get or of a fetch that failed. *)
C20_NoPutAfterFailure ==
    \A p \in Invocations : \A n \in Calls(p, {"get", "fetch"}, {"err"}) :
        \A m \in Calls(p, {"put"}, AnyOut) : trace[p][m].i # trace[p][n].i

(* A get or a fetch, failed or not, leaves the store as it is, and a      *)
(* failed one ends the iteration.                                         *)
C20_LookupAndFetchWriteNothing ==
    \A p \in Invocations :
        /\ (\E out \in AnyOut : Called(p, "get", out) \/ Called(p, "fetch", out)) =>
               table' = table /\ supportedRecord' = supportedRecord
        /\ Called(p, "get", "err") \/ Called(p, "fetch", "err") =>
               /\ idx'[p] = idx[p] + 1
               /\ pc'[p] \in {"check", "return"}

(* C20: an iteration in which get fails, or in which fetch fails, issues  *)
(* no put, and the store's contents after that iteration are exactly what *)
(* they were before it.                                                   *)
C20_NoWriteOnFailure ==
    [] C20_NoPutAfterFailure /\ [][C20_LookupAndFetchWriteNothing]_vars

(* A finished invocation over two entries had a failed get for one and a  *)
(* failed fetch for the other, and the table is empty.                    *)
C20_Witness ==
    \E p \in Invocations :
        /\ pc[p] = "done"
        /\ Count(p, {"get"}, {"err"}) = 1
        /\ Count(p, {"fetch"}, {"err"}) = 1
        /\ Count(p, {"put"}, AnyOut) = 0
        /\ DOMAIN table = {}

(* ---------------------------------------------------------------------- *)
(* C21                                                                    *)
(* ---------------------------------------------------------------------- *)

(* The keys of the table that the step creates or writes. *)
Written == {k \in DOMAIN table' : k \notin DOMAIN table \/ table'[k] # table[k]}

(* A step removes no key and does not remove the singleton; a key it      *)
(* creates or writes is the one of the put of an invocation, a configured *)
(* code with the date label of that invocation; the singleton changes     *)
(* only by the write of the supported-currencies record.                  *)
C21_StepOnlyAdds ==
    /\ DOMAIN table \subseteq DOMAIN table'
    /\ supportedRecord # <<>> => supportedRecord' # <<>>
    /\ \A k \in Written :
        \E p \in Invocations :
            /\ pc[p] = "store"
            /\ Called(p, "put", "ok")
            /\ k = KeyOf(p)
            /\ \E j \in 1 .. N : k[1] = supportedCurrencies[j]
    /\ supportedRecord' # supportedRecord =>
        /\ \E p \in Invocations : Called(p, "putSupported", "ok")
        /\ supportedRecord'[1].Key = "SupportedCurrencies"
        /\ supportedRecord'[1].SortKey = "-"

(* C21: handler never deletes a record; across any sequence or            *)
(* interleaving of invocations the set of keys present in the store only  *)
(* grows, and the only keys an invocation creates or writes are (c, date  *)
(* label of that invocation) for configured c and the singleton           *)
(* ("SupportedCurrencies", "-").                                          *)
C21_MonotoneStore == [][C21_StepOnlyAdds]_vars

(* Two invocations on different days have each left their record, and the *)
(* singleton is there.                                                    *)
C21_Witness ==
    /\ Cardinality(DOMAIN table) = 2
    /\ supportedRecord # <<>>
    /\ \A p \in Invocations : pc[p] = "done"

(* ---------------------------------------------------------------------- *)
(* C22                                                                    *)
(* ---------------------------------------------------------------------- *)

(* The date label is read from the clock by the step that starts the      *)
(* invocation and by no other; a get answers for the key with that label  *)
(* and a put writes the key with that label, whatever the clock says.     *)
C22_LabelStep ==
    \A p \in Invocations :
        /\ pc[p] \in {"idle", "done"} /\ pc'[p] = "supported" =>
               currentDate'[p] = FormatDate(now)
        /\ pc[p] \notin {"idle", "done"} => currentDate'[p] = currentDate[p]
        /\ Called(p, "get", "hit") => KeyOf(p) \in DOMAIN table
        /\ Called(p, "get", "miss") => KeyOf(p) \notin DOMAIN table
        /\ Called(p, "put", "ok") =>
            /\ KeyOf(p) \in DOMAIN table'
            /\ table'[KeyOf(p)].SortKey.S = currentDate[p]
            /\ DOMAIN table' = DOMAIN table \cup {KeyOf(p)}
            /\ \A k \in DOMAIN table : k # KeyOf(p) => table'[k] = table[k]

(* C22: the date label is determined once, at the start of an invocation, *)
(* and every get and put of that invocation uses that same label for      *)
(* every currency, even if the calendar day changes while the loop is     *)
(* still running.                                                         *)
C22_StableDateLabel ==
    /\ [] (\A p \in Invocations : \A n \in DOMAIN trace[p] :
              trace[p][n].date = currentDate[p])
    /\ [][C22_LabelStep]_vars

(* A record was put under the label of the invocation on a later day than *)
(* the one the label names.                                               *)
C22_Witness ==
    \E p \in Invocations :
        /\ pc[p] = "done"
        /\ FormatDate(now) # currentDate[p]
        /\ \E k \in DOMAIN table :
            /\ k[2] = currentDate[p]
            /\ FormatDate(UnmarshalRecord(table[k]).UpdatedAt) # k[2]

(* ---------------------------------------------------------------------- *)
(* C23                                                                    *)
(* ---------------------------------------------------------------------- *)

(* Call n of fetchExchangeRates went to the authenticated endpoint with a *)
(* valid code and was answered with status 200 and a body that decodes.   *)
AuthenticatedAnswer(n) ==
    /\ apiKey # ""
    /\ ThreeUpperCase(call[n].baseCurrency)
    /\ call[n].resp.transport = "ok"
    /\ call[n].resp.status = StatusOK
    /\ call[n].resp.decodes

(* C23 as stated: with an API key configured, fetchExchangeRates returns  *)
(* success only if the result field of the response equals "success".     *)
C23_SuccessOnlyOnSuccess ==
    \A n \in DOMAIN call :
        AuthenticatedAnswer(n) /\ call[n].ret.err = "" =>
            call[n].resp.result = "success"

(* C23, amended: with an API key configured, status 200 and a decodable   *)
(* body, fetchExchangeRates returns success exactly when the result field *)
(* is "success" or empty (absent); any other, non-empty result value      *)
(* yields an error and no rates are returned.                             *)
C23_NonEmptyResultMustBeSuccess ==
    \A n \in DOMAIN call :
        AuthenticatedAnswer(n) =>
            IF call[n].resp.result \in {"", "success"}
            THEN /\ call[n].ret.err = ""
                 /\ call[n].ret.ConversionRates = call[n].resp.conversion_rates
            ELSE /\ call[n].ret.err # ""
                 /\ call[n].ret.ConversionRates = NilRates

(* The authenticated endpoint answered 200 with rates and the result      *)
(* "error", and the call failed.                                          *)
C23_Witness ==
    \E n \in DOMAIN call :
        /\ AuthenticatedAnswer(n)
        /\ call[n].resp.result = "error"
        /\ call[n].resp.conversion_rates = RatesA
        /\ call[n].ret.err # ""
        /\ Len(call[n].ret.requests) = 1

(* ---------------------------------------------------------------------- *)
(* C24                                                                    *)
(* ---------------------------------------------------------------------- *)

(* The puts of p that succeeded for the currency of history entry n. *)
PutsFor(p, n) ==
    {m \in Calls(p, {"put"}, {"ok"}) : CodeAt(p, m) = CodeAt(p, n)}

C24_FailedEntryLeftAbsent ==
    \A p \in Invocations : \A n \in Calls(p, {"fetch", "put"}, {"err"}) :
        /\ \A m \in PutsFor(p, n) : trace[p][m].i # trace[p][n].i
        /\ PutsFor(p, n) = {} =>
               <<CodeAt(p, n), trace[p][n].date>> \notin DOMAIN table

(* A get that answers for an absent key is a miss and leads to the fetch; *)
(* one that answers for a recorded key is a hit and counts a skip; no     *)
(* fetch and no put is made for a recorded key.                           *)
C24_RetryStep ==
    \A p \in Invocations :
        /\ Called(p, "get", "miss") =>
               KeyOf(p) \notin DOMAIN table /\ pc'[p] = "fetch"
        /\ Called(p, "get", "hit") =>
               /\ KeyOf(p) \in DOMAIN table
               /\ skippedCount'[p] = skippedCount[p] + 1
        /\ (\E out \in AnyOut : Called(p, "fetch", out) \/ Called(p, "put", out)) =>
               KeyOf(p) \notin DOMAIN table

(* List entry j, if it is a valid code, is recorded for the current day. *)
RecordedToday(j) ==
    (j \in 1 .. N /\ ThreeUpperCase(supportedCurrencies[j])) =>
        <<supportedCurrencies[j], FormatDate(now)>> \in DOMAIN table

====
